---- MODULE Spec2Model ----
(***************************************************************************)
(* Batch download-and-inference pipeline of watermark-detection:           *)
(*   src/figma_pipeline.py      FigmaPipeline (controller, batch executor, *)
(*                              fetcher)                                   *)
(*   src/watermark_detection.py run_inference, update_json_file (result    *)
(*                              store)                                     *)
(* Files are modelled by their content: the report file and its temporary  *)
(* sibling hold a sequence of JSON tokens, so that a half-written file is  *)
(* a proper prefix of a serialisation and parsing it can fail.             *)
(*                                                                         *)
(* The specifications share the actions of the batch executor and of the   *)
(* result store:                                                           *)
(*   Spec         one run of run_pipeline, which the process may not       *)
(*                survive                                                  *)
(*   SpecRun      the same run, not killed, under fair scheduling          *)
(*   SpecClear    the same run when os.unlink can fail while the input     *)
(*                directory is cleared                                     *)
(*   SpecResubmit a caller that awaits _process_batch several times on one *)
(*                FigmaPipeline instance, repeating batch numbers          *)
(*   SpecFetch    one call of _process_batch, watched: the answers each    *)
(*                download task got and what was done with each image      *)
(*   SpecStore    a caller of update_json_file alone                       *)
(*   SpecTwo      two processes inside update_json_file at the same time   *)
(***************************************************************************)
EXTENDS Integers, Sequences, FiniteSets, TLC

\* ------------------------------------------------------------------ bounds
MaxUrls == 3
MaxBatchSize == 2
MaxBoxes == 1
MaxPrior == 1
MaxDriverBatches == 1
MaxNewResults == 2

\* --------------------------------------------------------------- constants
INPUT_DIR == "input_images"
OUTPUT_DIR == "output_images"

VARIABLES
    alive,                \* FALSE once the process has been killed
    pc,                   \* position of the single logical worker
    caller,               \* who drives: "run_pipeline", "driver" or "store"
    batch_size,           \* self.batch_size
    image_urls,           \* run_pipeline: image_urls
    i,                    \* run_pipeline: loop offset i
    batch_num,            \* _process_batch: batch_num
    batch,                \* _process_batch: image_urls (the slice)
    processed_batches,    \* self.processed_batches
    tasks,                \* _process_batch: state of each download task
    successful_downloads, \* _process_batch: successful_downloads
    det_raises,           \* positions of image_paths on which enhancement/predict raises
    idx,                  \* run_inference: loop position over results
    watermark_status,     \* run_inference: watermark_status
    new_results,          \* update_json_file: new_results
    all_results,          \* update_json_file: all_results
    merge_ret,            \* update_json_file: "none" while running, then "True"/"False"
    input_dir,            \* files of input_images/
    output_dir,           \* files of output_images/
    json_file,            \* result.json
    temp_file,            \* result.json.tmp
    submitted,            \* history: calls of _process_batch, in order
    repeat,               \* history: an earlier call with this batch_num downloaded something
    had_download,         \* history: batch numbers of calls that downloaded something
    store_at_submit,      \* history: result.json when the current call began
    pre_merge,            \* history: result.json when the current merge began
    events,               \* history: what went wrong (or was detected) in this call
    run_events,           \* history: the same in short, over the calls that returned
    merge_log,            \* history: the calls of update_json_file made by SpecStore
    initial_store,        \* history: result.json when the process started
    fetch_log,            \* history: the responses each download task of the watched call got
    done_order,           \* history: the download tasks of the watched call, as they settled
    infer_log,            \* history: what the detector and the renderer did per image of the watched call
    procs,                \* the locals of two processes inside update_json_file
    temp_lock             \* the process holding the byte lock on result.json.tmp, 0 if none

vars == <<alive, pc, caller, batch_size, image_urls, i, batch_num, batch,
          processed_batches, tasks, successful_downloads, det_raises, idx,
          watermark_status, new_results, all_results, merge_ret, input_dir,
          output_dir, json_file, temp_file, submitted, repeat, had_download,
          store_at_submit, pre_merge, events, run_events, merge_log,
          initial_store, fetch_log, done_order, infer_log, procs, temp_lock>>

obsVars == <<fetch_log, done_order, infer_log>>
twoVars == <<procs, temp_lock>>
ctrlVars == <<caller, batch_size, image_urls, i, initial_store>>
batchVars == <<batch_num, batch, tasks, successful_downloads>>
inferVars == <<det_raises, idx, watermark_status>>
mergeVars == <<new_results, all_results, merge_ret, pre_merge>>
fileVars == <<input_dir, output_dir, json_file, temp_file>>
histVars == <<submitted, repeat, had_download, store_at_submit, run_events,
              merge_log>>

\* ------------------------------------------------------------- data model
Min(a, b) == IF a < b THEN a ELSE b

\* f"image_batch{batch_num}_{idx}.png" joined to self.input_dir
InPath(b, k) == [dir |-> INPUT_DIR, batch |-> b, idx |-> k]

\* p.replace(INPUT_DIR, OUTPUT_DIR)
ReplaceDir(p) == [p EXCEPT !.dir = IF @ = INPUT_DIR THEN OUTPUT_DIR ELSE @]

\* {"image": ..., "status": ...}
Record(p, s) == [image |-> p, status |-> s]

\* a record left in result.json by an earlier run
OldRecord == Record([dir |-> OUTPUT_DIR, batch |-> 0, idx |-> 0], TRUE)

\* JSON text, token by token
LBracket == [tok |-> "[", rec |-> OldRecord]
RBracket == [tok |-> "]", rec |-> OldRecord]
Object(r) == [tok |-> "{}", rec |-> r]

NoFile == [exists |-> FALSE, text |-> <<>>]
File(t) == [exists |-> TRUE, text |-> t]

\* json.dump(all_results, f, indent=4)
json_dump(recs) ==
    <<LBracket>> \o [k \in 1..Len(recs) |-> Object(recs[k])] \o <<RBracket>>

\* json.load raises JSONDecodeError unless the text is one complete array
json_valid(t) ==
    /\ Len(t) >= 2
    /\ t[1] = LBracket
    /\ t[Len(t)] = RBracket
    /\ \A k \in 2..(Len(t) - 1) : t[k].tok = "{}"

\* json.load(f)
json_load(t) == [k \in 1..(Len(t) - 2) |-> t[k + 1].rec]

\* lines 30-40: the array of result.json; [] when the file is absent or its
\* text is not valid JSON
ReadStore(f) ==
    IF f.exists /\ json_valid(f.text) THEN json_load(f.text) ELSE <<>>

Range(s) == {s[k] : k \in 1..Len(s)}

RECURSIVE SelectOk(_, _, _)
\* [path for path in downloaded_paths if path is not None]
SelectOk(ts, b, k) ==
    IF k > Len(ts) THEN <<>>
    ELSE (IF ts[k] = "ok" THEN <<InPath(b, k - 1)>> ELSE <<>>)
         \o SelectOk(ts, b, k + 1)

PriorStores ==
    {NoFile} \cup {File(json_dump([k \in 1..n |-> OldRecord])) : n \in 0..MaxPrior}

\* the kinds of events
InferenceErrors == {"detector_err", "image_err", "render_err"}
PersistenceErrors == {"read_err", "write_err", "rename_err"}
Errors == InferenceErrors \cup PersistenceErrors \cup {"session_err"}

\* a call in short, for run_events
Short(ev, ts) ==
    (IF ev \cap Errors # {} THEN {"error"} ELSE {})
    \cup (IF "boxes" \in ev THEN {"boxes"} ELSE {})
    \cup (IF \E k \in 1..Len(ts) : ts[k] = "failed" THEN {"download_err"} ELSE {})

\* ------------------------------------------------------------------- Init
InitCommon ==
    /\ alive = TRUE
    /\ batch_size \in 1..MaxBatchSize
    /\ image_urls = <<>>
    /\ i = 0
    /\ batch_num = 0
    /\ batch = <<>>
    /\ processed_batches = {}
    /\ tasks = <<>>
    /\ successful_downloads = <<>>
    /\ det_raises = {}
    /\ idx = 0
    /\ watermark_status = <<>>
    /\ new_results = <<>>
    /\ all_results = <<>>
    /\ merge_ret = "none"
    /\ input_dir = {}
    /\ json_file \in PriorStores
    /\ output_dir = {r.image : r \in Range(ReadStore(json_file))}
    /\ temp_file = NoFile
    /\ submitted = <<>>
    /\ repeat = FALSE
    /\ had_download = {}
    /\ store_at_submit = json_file
    /\ pre_merge = json_file
    /\ events = {}
    /\ run_events = {}
    /\ merge_log = <<>>
    /\ initial_store = json_file
    /\ fetch_log = <<>>
    /\ done_order = <<>>
    /\ infer_log = <<>>
    /\ procs = <<>>
    /\ temp_lock = 0

Init ==
    /\ InitCommon
    /\ pc = "idle"
    /\ caller = "run_pipeline"

\* ------------------------------------------------------------ controller
\* asyncio.run(main()): run_pipeline is entered
StartRun ==
    /\ alive /\ pc = "idle"
    /\ pc' = "fetching"
    /\ UNCHANGED <<obsVars, twoVars,
                   alive, ctrlVars, batchVars, processed_batches, inferVars,
                   mergeVars, fileVars, histVars, events>>

\* image_urls = self._get_figma_images(); if not image_urls: return
GetFigmaImages ==
    /\ alive /\ pc = "fetching"
    /\ \/ \E n \in 0..MaxUrls :
            /\ image_urls' = [k \in 1..n |-> k]
            /\ pc' = IF n = 0 THEN "done" ELSE "loop"
            /\ UNCHANGED run_events
       \/ /\ image_urls' = <<>>          \* the locator raised: except at line 214
          /\ pc' = "done"
          /\ run_events' = run_events \cup {"discovery_err"}
    /\ UNCHANGED <<obsVars, twoVars,
                   alive, caller, batch_size, i, initial_store, batchVars,
                   processed_batches, inferVars, mergeVars, fileVars, submitted,
                   repeat, had_download, store_at_submit, merge_log, events>>

\* image_urls[i:i + self.batch_size]
Slice(urls, from, size) == SubSeq(urls, from + 1, Min(from + size, Len(urls)))

\* numbering from 0: i // self.batch_size
BatchNumberFromZero(from, size) == from \div size

\* numbering by offset: i + 1
BatchNumberByOffset(from, size) == from + 1

\* i // self.batch_size + 1
BatchNumber(from, size) == (from \div size) + 1

\* a call of _process_batch(urls, b) begins
Submit(urls, b) ==
    /\ batch_num' = b
    /\ batch' = urls
    /\ submitted' = Append(submitted, [num |-> b, urls |-> urls])
    /\ repeat' = (b \in had_download)
    /\ store_at_submit' = json_file
    /\ pre_merge' = json_file
    /\ events' = {}
    /\ pc' = "pb_enter"

\* for i in range(0, len(image_urls), self.batch_size): ... await self._process_batch
LoopHead ==
    /\ alive /\ pc = "loop"
    /\ IF i < Len(image_urls)
       THEN Submit(Slice(image_urls, i, batch_size), BatchNumber(i, batch_size))
       ELSE /\ pc' = "done"
            /\ UNCHANGED <<batch_num, batch, submitted, repeat, store_at_submit,
                           pre_merge, events>>
    /\ UNCHANGED <<obsVars, twoVars,
                   alive, ctrlVars, tasks, successful_downloads,
                   processed_batches, inferVars, new_results, all_results,
                   merge_ret, fileVars, had_download, run_events, merge_log>>

\* _process_batch has returned: its locals are gone
Returned ==
    /\ tasks' = <<>>
    /\ successful_downloads' = <<>>
    /\ det_raises' = {}
    /\ run_events' = run_events \cup Short(events, tasks)
    /\ events' = {}

\* self._clear_input_directory(), then the next iteration
ClearInputDirectory ==
    /\ alive /\ pc = "pb_return" /\ caller = "run_pipeline"
    /\ Returned
    /\ input_dir' = {}
    /\ i' = i + batch_size
    /\ pc' = "loop"
    /\ UNCHANGED <<obsVars, twoVars,
                   alive, caller, batch_size, image_urls, initial_store,
                   batch_num, batch, processed_batches, idx, watermark_status,
                   mergeVars,
                   output_dir, json_file, temp_file, submitted, repeat,
                   had_download, store_at_submit, merge_log>>

\* -------------------------------------------------------- batch executor
\* if batch_num in self.processed_batches
AlreadyProcessed(b, done) == b \in done

\* async with self.batch_lock: the idempotency guard
ProcessBatchEnter ==
    /\ alive /\ pc = "pb_enter"
    /\ pc' = IF AlreadyProcessed(batch_num, processed_batches)
             THEN "pb_return"            \* return []
             ELSE "pb_session"
    /\ UNCHANGED <<obsVars, twoVars,
                   alive, ctrlVars, batchVars, processed_batches, inferVars,
                   mergeVars, fileVars, histVars, events>>

\* the same without the try of line 93: the error leaves _process_batch and
\* is caught by run_pipeline at line 214
OpenSessionUncaught ==
    /\ alive /\ pc = "pb_session"
    /\ \/ /\ tasks' = [k \in 1..Len(batch) |-> "get1"]
          /\ pc' = "pb_gather"
          /\ UNCHANGED <<events, run_events>>
       \/ /\ events' = events \cup {"session_err"}
          /\ run_events' = run_events \cup {"error"}
          /\ pc' = IF caller = "run_pipeline" THEN "done" ELSE "pb_return"
          /\ UNCHANGED tasks
    /\ UNCHANGED <<obsVars, twoVars,
                   alive, ctrlVars, batch_num, batch, successful_downloads,
                   processed_batches, inferVars, mergeVars, fileVars, submitted,
                   repeat, had_download, store_at_submit, merge_log>>

\* aiohttp.ClientSession(...) and one _download_image task per URL
OpenSession ==
    /\ alive /\ pc = "pb_session"
    /\ \/ /\ tasks' = [k \in 1..Len(batch) |-> "get1"]
          /\ fetch_log' = IF caller = "fetch"
                          THEN [k \in 1..Len(batch) |-> <<>>] ELSE fetch_log
          /\ pc' = "pb_gather"
          /\ UNCHANGED events
       \/ /\ events' = events \cup {"session_err"}
          /\ pc' = "pb_return"           \* except at line 121: return []
          /\ UNCHANGED <<tasks, fetch_log>>
    /\ UNCHANGED <<done_order, infer_log, twoVars, alive, ctrlVars, batch_num, batch, successful_downloads,
                   processed_batches, inferVars, mergeVars, fileVars, histVars>>

\* -------------------------------------------------------------- fetcher
\* the file of task k: image_batch{batch_num}_{idx}.png, idx counted from 0
TaskFile(k, full) == [batch |-> batch_num, idx |-> k - 1, full |-> full]

SameName(f, k) == f.batch = batch_num /\ f.idx = k - 1

\* what a GET can come back with: a transport error, or a status with or
\* without a Location header
Statuses == {200, 300, 302, 404}

Responses ==
    {[err |-> TRUE, status |-> 0, location |-> FALSE]}
        \cup {[err |-> FALSE, status |-> st, location |-> l] :
                  st \in Statuses, l \in BOOLEAN}

\* the responses without the header: what the second hop and the body read
\* can come back with
Replies == {r \in Responses : ~r.location}

\* if response.status in (301, 302, 303, 307, 308)
RedirectStatuses == {301, 302, 303, 307, 308}

\* the same reading headers.get('Location', url): a redirect without the
\* header is followed as well
FirstResponseAnyRedirect(r) ==
    IF r.err THEN "failed"
    ELSE IF r.status \in RedirectStatuses THEN "get2"
    ELSE "failed"

\* where the first response leads: a redirect with a Location header goes on
\* to the second GET; any other status, a redirect without the header
\* (KeyError) and a transport error end in the except of line 80
FirstResponse(r) ==
    IF r.err THEN "failed"
    ELSE IF r.status \in RedirectStatuses
         THEN (IF r.location THEN "get2" ELSE "failed")
    ELSE "failed"

\* if s3_response.status == 200
SecondResponse(r) ==
    IF r.err THEN "failed"
    ELSE IF r.status = 200 THEN "body"
    ELSE "failed"

\* the watched call keeps, per task, the hops made and what came back
Logged(k, hop, r) ==
    IF caller = "fetch"
    THEN [fetch_log EXCEPT ![k] = Append(@, [hop |-> hop, resp |-> r])]
    ELSE fetch_log

\* the task has returned: its place in the order of completion
Finished(k, state) ==
    IF caller = "fetch" /\ state \in {"ok", "failed"}
    THEN Append(done_order, k)
    ELSE done_order

\* async with session.get(url, headers=self.headers, allow_redirects=False)
FirstGet(k) ==
    /\ alive /\ pc = "pb_gather"
    /\ k \in 1..Len(tasks) /\ tasks[k] = "get1"
    /\ \E r \in Responses :
          /\ tasks' = [tasks EXCEPT ![k] = FirstResponse(r)]
          /\ fetch_log' = Logged(k, "first", r)
          /\ done_order' = Finished(k, FirstResponse(r))
    /\ UNCHANGED <<infer_log, twoVars, alive, pc, ctrlVars, batch_num, batch,
                   successful_downloads, processed_batches, inferVars, mergeVars,
                   fileVars, histVars, events>>

\* the same with the destination opened before the status is looked at
SecondGetOpensFirst(k) ==
    /\ alive /\ pc = "pb_gather"
    /\ k \in 1..Len(tasks) /\ tasks[k] = "get2"
    /\ \E r \in Replies :
          /\ tasks' = [tasks EXCEPT ![k] = SecondResponse(r)]
          /\ fetch_log' = Logged(k, "second", r)
          /\ done_order' = Finished(k, SecondResponse(r))
          /\ input_dir' = {f \in input_dir : ~SameName(f, k)}
                              \cup {TaskFile(k, FALSE)}
    /\ UNCHANGED <<infer_log, twoVars, alive, pc, ctrlVars, batch_num, batch,
                   successful_downloads, processed_batches, inferVars, mergeVars,
                   output_dir, json_file, temp_file, histVars, events>>

\* async with session.get(s3_url): a 200 opens the destination for writing
\* (open(filepath, 'wb') runs before the body is awaited)
SecondGet(k) ==
    /\ alive /\ pc = "pb_gather"
    /\ k \in 1..Len(tasks) /\ tasks[k] = "get2"
    /\ \E r \in Replies :
          /\ tasks' = [tasks EXCEPT ![k] = SecondResponse(r)]
          /\ fetch_log' = Logged(k, "second", r)
          /\ done_order' = Finished(k, SecondResponse(r))
          /\ input_dir' = IF SecondResponse(r) = "body"
                          THEN {f \in input_dir : ~SameName(f, k)}
                                   \cup {TaskFile(k, FALSE)}
                          ELSE input_dir
    /\ UNCHANGED <<infer_log, twoVars, alive, pc, ctrlVars, batch_num, batch,
                   successful_downloads, processed_batches, inferVars, mergeVars,
                   output_dir, json_file, temp_file, histVars, events>>

\* f.write(await s3_response.read()); return filepath
WriteBody(k) ==
    /\ alive /\ pc = "pb_gather"
    /\ k \in 1..Len(tasks) /\ tasks[k] = "body"
    /\ \E read \in BOOLEAN :
          LET state == IF read THEN "ok" ELSE "failed"    \* read() raised
              r == [err |-> ~read, status |-> 200, location |-> FALSE]
          IN /\ tasks' = [tasks EXCEPT ![k] = state]
             /\ fetch_log' = Logged(k, "body", r)
             /\ done_order' = Finished(k, state)
             /\ input_dir' = IF read
                             THEN {f \in input_dir : ~SameName(f, k)}
                                      \cup {TaskFile(k, TRUE)}
                             ELSE input_dir
    /\ UNCHANGED <<infer_log, twoVars, alive, pc, ctrlVars, batch_num, batch,
                   successful_downloads, processed_batches, inferVars, mergeVars,
                   output_dir, json_file, temp_file, histVars, events>>

Download == \E k \in 1..MaxBatchSize : FirstGet(k) \/ SecondGet(k) \/ WriteBody(k)

\* the same waiting for the first task only (return_when=FIRST_COMPLETED)
SettledFirst(ts) == \E k \in 1..Len(ts) : ts[k] \in {"ok", "failed"}

\* the same resuming only when every task returned a path
SettledAllOk(ts) == \A k \in 1..Len(ts) : ts[k] = "ok"

\* await asyncio.gather(*tasks) resumes when every task has returned
Settled(ts) == \A k \in 1..Len(ts) : ts[k] \in {"ok", "failed"}

\* downloaded_paths without the filter of line 106
InferenceInputAll(ts, b) == [k \in 1..Len(ts) |-> InPath(b, k - 1)]

\* the paths in the order in which the tasks returned (asyncio.as_completed)
InferenceInputAsCompleted(ts, b) ==
    LET order == SelectSeq(done_order, LAMBDA k : ts[k] = "ok")
    IN [j \in 1..Len(order) |-> InPath(b, order[j] - 1)]

\* what _process_batch hands to self.run_inference
InferenceInput(ts, b) == SelectOk(ts, b, 1)

\* downloaded_paths = await asyncio.gather(*tasks); the filter; if successful_downloads
Gather ==
    /\ alive /\ pc = "pb_gather"
    /\ Settled(tasks)
    /\ successful_downloads' = InferenceInput(tasks, batch_num)
    /\ IF successful_downloads' # <<>>
       THEN /\ pc' = "inf_start"
            /\ had_download' = had_download \cup {batch_num}
       ELSE /\ pc' = "pb_return"
            /\ UNCHANGED had_download
    /\ fetch_log' = <<>>                 \* the coroutines are gone
    /\ UNCHANGED <<done_order, infer_log, twoVars, alive, ctrlVars, batch_num, batch, tasks,
                   processed_batches,
                   inferVars, mergeVars, fileVars, submitted, repeat,
                   store_at_submit, run_events, merge_log, events>>

\* line 113 left out
AddProcessedForgets(done, b) == done

\* what line 113 leaves in self.processed_batches
AddProcessed(done, b) == done \cup {b}

\* self.run_inference returned: self.processed_batches.add(batch_num)
MarkProcessed ==
    /\ alive /\ pc = "pb_mark"
    /\ processed_batches' = AddProcessed(processed_batches, batch_num)
    /\ pc' = "pb_return"
    /\ UNCHANGED <<obsVars, twoVars,
                   alive, ctrlVars, batchVars, inferVars, mergeVars, fileVars,
                   histVars, events>>

\* ------------------------------------------------------------ inference
\* "status": len(result.boxes) >= 0
StatusOfAlways(boxes) == boxes >= 0

\* "status": len(result.boxes) > 0
StatusOf(boxes) == boxes > 0

\* makedirs, the two list comprehensions over image_paths (image_enhancer, then
\* model.predict): an error on any image leaves the function by line 120
RunInferenceStart ==
    /\ alive /\ pc = "inf_start"
    /\ \E bad \in SUBSET (1..Len(successful_downloads)) :
          /\ det_raises' = bad
          /\ IF bad # {}
             THEN /\ events' = events \cup {"detector_err"}
                  /\ pc' = "pb_mark"
                  /\ UNCHANGED <<idx, watermark_status>>
             ELSE /\ idx' = 1
                  /\ watermark_status' = <<>>
                  /\ pc' = "inf_loop"
                  /\ UNCHANGED events
    /\ UNCHANGED <<obsVars, twoVars,
                   alive, ctrlVars, batchVars, processed_batches, mergeVars,
                   fileVars, histVars>>

\* the record appended only once the image is saved
AppendedAfterSave(drawn, stored) == stored

\* watermark_status.append(...) stands before the drawing loop and before
\* image.save: the record is appended whatever these two then do
AppendedBeforeRender(drawn, stored) == TRUE

\* the watched call keeps, per image, what the detector and the renderer did
Inferred(path, got, boxes, drawn, stored) ==
    IF caller = "fetch"
    THEN Append(infer_log, [path |-> path, got |-> got, boxes |-> boxes,
                            drawn |-> drawn, stored |-> stored])
    ELSE infer_log

\* one iteration of "for idx, result in enumerate(results)", lines 81-111
ProcessResult ==
    /\ alive /\ pc = "inf_loop"
    /\ idx <= Len(successful_downloads)
    /\ LET path == successful_downloads[idx]
           saved == ReplaceDir(path) IN
       \/ /\ events' = events \cup {"image_err"}   \* result[0] or Image.open raised
          /\ infer_log' = Inferred(path, FALSE, 0, FALSE, FALSE)
          /\ UNCHANGED <<watermark_status, output_dir>>
       \/ \E boxes \in 0..MaxBoxes, drawn \in BOOLEAN, stored \in BOOLEAN :
            /\ boxes = 0 => drawn
            /\ ~drawn => ~stored                   \* draw raised: save is not reached
            /\ watermark_status' =
                   IF AppendedBeforeRender(drawn, stored)
                   THEN Append(watermark_status, Record(saved, StatusOf(boxes)))
                   ELSE watermark_status
            /\ output_dir' = IF stored THEN output_dir \cup {saved} ELSE output_dir
            /\ infer_log' = Inferred(path, TRUE, boxes, drawn, stored)
            /\ events' = events
                   \cup (IF boxes > 0 THEN {"boxes"} ELSE {})
                   \cup (IF stored THEN {} ELSE {"render_err"})
    /\ idx' = idx + 1
    /\ UNCHANGED <<fetch_log, done_order, twoVars, alive, pc, ctrlVars, batchVars,
                   processed_batches, det_raises, mergeVars, input_dir, json_file,
                   temp_file, histVars>>

\* if watermark_status: update_json_file(watermark_status)
AfterLoop ==
    /\ alive /\ pc = "inf_loop"
    /\ idx > Len(successful_downloads)
    /\ idx' = 0
    /\ watermark_status' = <<>>
    /\ IF watermark_status # <<>>
       THEN /\ pc' = "mg_read"
            /\ new_results' = watermark_status
       ELSE /\ pc' = "pb_mark"
            /\ UNCHANGED new_results
    /\ UNCHANGED <<obsVars, twoVars,
                   alive, ctrlVars, batchVars, processed_batches, det_raises,
                   all_results, merge_ret, pre_merge, fileVars, histVars, events>>

\* --------------------------------------------------------- result store
\* new_results + existing_results
CombineNewFirst(existing, new) == new \o existing

\* all_results = existing_results + new_results
Combine(existing, new) == existing \o new

\* lines 30-46: existing_results stays [] when the file is absent, is not valid
\* JSON, or cannot be read (except Exception at line 41)
MergeRead ==
    /\ alive /\ pc = "mg_read"
    /\ pre_merge' = json_file
    /\ merge_ret' = "none"
    /\ \/ /\ all_results' = Combine(ReadStore(json_file), new_results)
          /\ UNCHANGED events
       \/ /\ json_file.exists
          /\ all_results' = Combine(<<>>, new_results)
          /\ events' = events \cup {"read_err"}
    /\ pc' = "mg_open"
    /\ UNCHANGED <<obsVars, twoVars,
                   alive, ctrlVars, batchVars, processed_batches, inferVars,
                   new_results, fileVars, histVars>>

\* open(json_path, "w"): the report itself is opened for writing
MergeOpenInPlace ==
    /\ alive /\ pc = "mg_open"
    /\ \/ /\ json_file' = File(<<>>)
          /\ temp_file' = File(<<>>)
          /\ pc' = "mg_write"
          /\ UNCHANGED events
       \/ /\ pc' = "mg_except"
          /\ events' = events \cup {"write_err"}
          /\ UNCHANGED <<json_file, temp_file>>
    /\ UNCHANGED <<obsVars, twoVars,
                   alive, ctrlVars, batchVars, processed_batches, inferVars,
                   mergeVars, input_dir, output_dir, histVars>>

\* open(temp_path, "w")
MergeOpenTemp ==
    /\ alive /\ pc = "mg_open"
    /\ \/ /\ temp_file' = File(<<>>)
          /\ pc' = "mg_write"
          /\ UNCHANGED events
       \/ /\ pc' = "mg_except"
          /\ events' = events \cup {"write_err"}
          /\ UNCHANGED temp_file
    /\ UNCHANGED <<obsVars, twoVars,
                   alive, ctrlVars, batchVars, processed_batches, inferVars,
                   mergeVars, input_dir, output_dir, json_file, histVars>>

\* the same, but the rename is reached before the last token is written
MergeWriteUnfinished ==
    /\ alive /\ pc = "mg_write"
    /\ LET out == json_dump(all_results)
           n == Len(temp_file.text) IN
       \/ /\ temp_file' = File(Append(temp_file.text, out[n + 1]))
          /\ pc' = IF n + 2 >= Len(out) THEN "mg_rename" ELSE "mg_write"
          /\ UNCHANGED events
       \/ /\ pc' = "mg_except"
          /\ events' = events \cup {"write_err"}
          /\ UNCHANGED temp_file
    /\ UNCHANGED <<obsVars, twoVars,
                   alive, ctrlVars, batchVars, processed_batches, inferVars,
                   mergeVars, input_dir, output_dir, json_file, histVars>>

\* json.dump(all_results, f, indent=4), one token at a time; the file is closed
\* after the last one
MergeWrite ==
    /\ alive /\ pc = "mg_write"
    /\ LET out == json_dump(all_results)
           n == Len(temp_file.text) IN
       \/ /\ temp_file' = File(Append(temp_file.text, out[n + 1]))
          /\ pc' = IF n + 1 = Len(out) THEN "mg_rename" ELSE "mg_write"
          /\ UNCHANGED events
       \/ /\ pc' = "mg_except"
          /\ events' = events \cup {"write_err"}
          /\ UNCHANGED temp_file
    /\ UNCHANGED <<obsVars, twoVars,
                   alive, ctrlVars, batchVars, processed_batches, inferVars,
                   mergeVars, input_dir, output_dir, json_file, histVars>>

\* os.replace(temp_path, json_path); return True
MergeRename ==
    /\ alive /\ pc = "mg_rename"
    /\ \/ /\ json_file' = temp_file
          /\ temp_file' = NoFile
          /\ merge_ret' = "True"
          /\ pc' = "inf_ret"
          /\ UNCHANGED events
       \/ /\ pc' = "mg_except"
          /\ events' = events \cup {"rename_err"}
          /\ UNCHANGED <<json_file, temp_file, merge_ret>>
    /\ UNCHANGED <<obsVars, twoVars,
                   alive, ctrlVars, batchVars, processed_batches, inferVars,
                   new_results, all_results, pre_merge, input_dir, output_dir,
                   histVars>>

\* except Exception at line 59: os.remove(temp_path) if it exists; return False
MergeExcept ==
    /\ alive /\ pc = "mg_except"
    /\ temp_file' = NoFile
    /\ merge_ret' = "False"
    /\ pc' = "inf_ret"
    /\ UNCHANGED <<obsVars, twoVars,
                   alive, ctrlVars, batchVars, processed_batches, inferVars,
                   new_results, all_results, pre_merge, input_dir, output_dir,
                   json_file, histVars, events>>

\* update_json_file returned to run_inference (lines 115-116), which returns
InferenceReturn ==
    /\ alive /\ pc = "inf_ret" /\ caller # "store"
    /\ new_results' = <<>>
    /\ all_results' = <<>>
    /\ merge_ret' = "none"
    /\ pc' = "pb_mark"
    /\ UNCHANGED <<obsVars, twoVars,
                   alive, ctrlVars, batchVars, processed_batches, inferVars,
                   pre_merge, fileVars, histVars, events>>

BatchStep ==
    \/ ProcessBatchEnter \/ OpenSession \/ Download \/ Gather
    \/ RunInferenceStart \/ ProcessResult \/ AfterLoop
    \/ MergeRead \/ MergeOpenTemp \/ MergeWrite \/ MergeRename \/ MergeExcept
    \/ InferenceReturn \/ MarkProcessed

\* ------------------------------------------------------------- the process
\* the process is killed while a run is under way: the files stay as they
\* are, what the process held in memory is gone, and so is what is recorded
\* of its run
Crash ==
    /\ alive /\ pc \notin {"idle", "done", "driver", "client"}
    /\ alive' = FALSE
    /\ image_urls' = <<>> /\ i' = 0 /\ batch_num' = 0 /\ batch' = <<>>
    /\ processed_batches' = {} /\ tasks' = <<>> /\ successful_downloads' = <<>>
    /\ det_raises' = {} /\ idx' = 0 /\ watermark_status' = <<>>
    /\ submitted' = <<>> /\ repeat' = FALSE /\ had_download' = {}
    /\ events' = {} /\ run_events' = {}
    /\ merge_log' = <<>>
    /\ UNCHANGED <<obsVars, twoVars,
                   pc, caller, batch_size, initial_store, mergeVars, fileVars,
                   store_at_submit>>

Next ==
    \/ StartRun \/ GetFigmaImages \/ LoopHead \/ ClearInputDirectory
    \/ BatchStep \/ Crash

Spec == Init /\ [][Next]_vars

\* ----------------------------------------------- a run that is not killed
\* The event loop runs whatever is ready: the single worker of run_pipeline
\* takes its next step, and a download task that can go on does go on (every
\* request is answered or fails). The process is not killed.
NextRun ==
    \/ StartRun \/ GetFigmaImages \/ LoopHead \/ ClearInputDirectory
    \/ BatchStep

SpecRun == Init /\ [][NextRun]_vars /\ WF_vars(NextRun)

\* ------------------------------------------ a run in which unlink can fail
\* self._clear_input_directory() when os.unlink raises for the files `kept`:
\* line 44 prints the error, the loop over the directory goes on, and the
\* run goes on with the files still there
ClearInputDirectoryKeeping ==
    /\ alive /\ pc = "pb_return" /\ caller = "run_pipeline"
    /\ Returned
    /\ \E kept \in SUBSET input_dir : kept # {} /\ input_dir' = kept
    /\ i' = i + batch_size
    /\ pc' = "loop"
    /\ UNCHANGED <<obsVars, twoVars, alive, caller, batch_size, image_urls,
                   initial_store, batch_num, batch, processed_batches, idx,
                   watermark_status, mergeVars, output_dir, json_file, temp_file,
                   submitted, repeat, had_download, store_at_submit, merge_log>>

NextClear ==
    \/ StartRun \/ GetFigmaImages \/ LoopHead \/ ClearInputDirectory
    \/ ClearInputDirectoryKeeping \/ BatchStep

SpecClear == Init /\ [][NextClear]_vars

\* ------------------------------------------- a caller of _process_batch
\* the batches this caller submits hold one or two URLs
InitDriver ==
    /\ InitCommon
    /\ batch_size \in {1, 2}
    /\ pc = "driver"
    /\ caller = "driver"

\* await pipeline._process_batch(urls, b), with the URLs of batch b: the
\* caller does so twice
DriverSubmit ==
    /\ alive /\ pc = "driver"
    /\ Len(submitted) < 2
    /\ \E b \in 1..MaxDriverBatches :
          Submit([k \in 1..batch_size |-> (b - 1) * batch_size + k], b)
    /\ UNCHANGED <<obsVars, twoVars,
                   alive, ctrlVars, tasks, successful_downloads,
                   processed_batches, inferVars, new_results, all_results,
                   merge_ret, fileVars, had_download, run_events, merge_log>>

\* the call returned
DriverResume ==
    /\ alive /\ pc = "pb_return" /\ caller = "driver"
    /\ tasks' = <<>>
    /\ successful_downloads' = <<>>
    /\ det_raises' = {}
    /\ events' = {}
    /\ pc' = "driver"
    /\ UNCHANGED <<obsVars, twoVars,
                   alive, ctrlVars, batch_num, batch, processed_batches, idx,
                   watermark_status, mergeVars, fileVars, histVars>>

\* both calls are made on one FigmaPipeline instance: the process stays alive
NextDriver == DriverSubmit \/ DriverResume \/ BatchStep

SpecResubmit == InitDriver /\ [][NextDriver]_vars

\* ------------------------------------ one watched call of _process_batch
\* a caller that awaits _process_batch once and keeps what each download
\* task was answered and the order in which the tasks settled
InitFetch ==
    /\ InitCommon
    /\ pc = "driver"
    /\ caller = "fetch"

FetchSubmit ==
    /\ alive /\ pc = "driver"
    /\ submitted = <<>>
    /\ Submit([k \in 1..batch_size |-> k], 1)
    /\ UNCHANGED <<obsVars, twoVars,
                   alive, ctrlVars, tasks, successful_downloads,
                   processed_batches, inferVars, new_results, all_results,
                   merge_ret, fileVars, had_download, run_events, merge_log>>

NextFetch == FetchSubmit \/ BatchStep

SpecFetch == InitFetch /\ [][NextFetch]_vars

\* ------------------------------------------ a caller of update_json_file
InitStore ==
    /\ InitCommon
    /\ pc = "client"
    /\ caller = "store"

\* the lists a caller passes: the first n records of one batch
NewResultLists ==
    {[k \in 1..n |-> Record([dir |-> OUTPUT_DIR, batch |-> 1, idx |-> k - 1],
                            k % 2 = 1)] : n \in 0..MaxNewResults}

\* update_json_file(new): the caller does so twice
ClientMerge ==
    /\ alive /\ pc = "client"
    /\ Len(merge_log) < 2
    /\ \E new \in NewResultLists : new_results' = new
    /\ events' = {}
    /\ pc' = "mg_read"
    /\ UNCHANGED <<obsVars, twoVars,
                   alive, ctrlVars, batchVars, processed_batches, inferVars,
                   all_results, merge_ret, pre_merge, fileVars, histVars>>

\* the call returned True or False
ClientReturn ==
    /\ alive /\ pc = "inf_ret" /\ caller = "store"
    /\ merge_log' = Append(merge_log,
           [before |-> pre_merge, new |-> new_results, ret |-> merge_ret,
            errors |-> events, after |-> json_file])
    /\ new_results' = <<>>
    /\ all_results' = <<>>
    /\ merge_ret' = "none"
    /\ events' = {}
    /\ pc' = "client"
    /\ UNCHANGED <<obsVars, twoVars,
                   alive, ctrlVars, batchVars, processed_batches, inferVars,
                   pre_merge, fileVars, submitted, repeat, had_download,
                   store_at_submit, run_events>>

\* lines 62-67 when os.remove(temp_path) itself fails: "except: pass", and
\* the temporary file stays; return False
MergeExceptKeep ==
    /\ alive /\ pc = "mg_except"
    /\ temp_file.exists
    /\ merge_ret' = "False"
    /\ pc' = "inf_ret"
    /\ UNCHANGED <<obsVars, twoVars,
                   alive, ctrlVars, batchVars, processed_batches, inferVars,
                   new_results, all_results, pre_merge, fileVars, histVars,
                   events>>

MergeStep ==
    \/ MergeRead \/ MergeOpenTemp \/ MergeWrite \/ MergeRename \/ MergeExcept
    \/ MergeExceptKeep

NextStore == ClientMerge \/ ClientReturn \/ MergeStep \/ Crash

SpecStore == InitStore /\ [][NextStore]_vars

\* --------------------------- two processes inside update_json_file at once
\* Each process runs the function once on its own list; result.json and the
\* one temporary path result.json.tmp are shared. The module imports msvcrt,
\* so the files follow Windows rules: a byte locked by one process cannot be
\* written by another, and a file another process holds open can be neither
\* renamed nor removed.
Procs == {1, 2}

Other(p) == 3 - p

\* the process holds a handle on result.json.tmp (inside the with of line 49)
HoldsTemp(p) == procs[p].pc \in {"lock", "write"}

\* a byte the file never received: a write beyond its end leaves a gap
Gap == [tok |-> "nul", rec |-> OldRecord]

\* the file text after a token is written at offset pos
WriteAt(text, pos, tok) ==
    IF pos < Len(text) THEN [text EXCEPT ![pos + 1] = tok]
    ELSE text \o [k \in 1..(pos - Len(text)) |-> Gap] \o <<tok>>

pipelineVars ==
    <<alive, pc, ctrlVars, batchVars, processed_batches, inferVars, mergeVars,
      input_dir, output_dir, histVars, events, obsVars>>

InitTwo ==
    /\ InitCommon
    /\ pc = "two"
    /\ caller = "two"

\* both processes call update_json_file(new_results)
TwoStart ==
    /\ procs = <<>>
    /\ \E a \in NewResultLists, b \in NewResultLists :
          procs' = [p \in Procs |->
                       [pc |-> "read", new |-> IF p = 1 THEN a ELSE b,
                        all |-> <<>>, pos |-> 0, ret |-> "none"]]
    /\ UNCHANGED <<pipelineVars, temp_lock, json_file, temp_file>>

\* lines 30-46: read result.json, all_results = existing_results + new_results
TwoRead(p) ==
    /\ procs # <<>> /\ procs[p].pc = "read"
    /\ \E existing \in {ReadStore(json_file), <<>>} :
          procs' = [procs EXCEPT ![p].all = Combine(existing, procs[p].new),
                                 ![p].pc = "open"]
    /\ UNCHANGED <<pipelineVars, temp_lock, json_file, temp_file>>

\* line 49: open(temp_path, "w") creates or truncates the shared file
TwoOpen(p) ==
    /\ procs # <<>> /\ procs[p].pc = "open"
    /\ \/ /\ temp_file' = File(<<>>)
          /\ procs' = [procs EXCEPT ![p].pc = "lock", ![p].pos = 0]
       \/ /\ procs' = [procs EXCEPT ![p].pc = "except"]
          /\ UNCHANGED temp_file
    /\ UNCHANGED <<pipelineVars, temp_lock, json_file>>

\* line 51: msvcrt.locking(LK_LOCK, 1) takes the first byte when it is free,
\* waits while the other process holds it and raises after ten tries
TwoLock(p) ==
    /\ procs # <<>> /\ procs[p].pc = "lock"
    /\ IF temp_lock = 0
       THEN /\ temp_lock' = p
            /\ procs' = [procs EXCEPT ![p].pc = "write"]
       ELSE /\ procs' = [procs EXCEPT ![p].pc = "except"]
            /\ UNCHANGED temp_lock
    /\ UNCHANGED <<pipelineVars, json_file, temp_file>>

\* line 54: msvcrt.locking(LK_UNLCK, 1), after json.dump filled the buffer
TwoUnlock(p) ==
    /\ procs # <<>> /\ procs[p].pc = "write"
    /\ temp_lock = p
    /\ temp_lock' = 0
    /\ UNCHANGED <<pipelineVars, procs, json_file, temp_file>>

\* lines 52-54: the text of json.dump reaches the file at the offset of this
\* handle, while the buffer is flushed and when the with block closes the
\* file; the first byte cannot be written while the other process locks it
TwoWrite(p) ==
    /\ procs # <<>> /\ procs[p].pc = "write"
    /\ procs[p].pos < Len(json_dump(procs[p].all))
    /\ IF procs[p].pos = 0 /\ temp_lock = Other(p)
       THEN /\ procs' = [procs EXCEPT ![p].pc = "except"]
            /\ UNCHANGED <<temp_file, temp_lock>>
       ELSE \/ /\ temp_file' =
                      File(WriteAt(temp_file.text, procs[p].pos,
                                   json_dump(procs[p].all)[procs[p].pos + 1]))
               /\ procs' = [procs EXCEPT ![p].pos = @ + 1]
               /\ UNCHANGED temp_lock
            \/ /\ procs' = [procs EXCEPT ![p].pc = "except"]
               /\ temp_lock' = IF temp_lock = p THEN 0 ELSE temp_lock
               /\ UNCHANGED temp_file
    /\ UNCHANGED <<pipelineVars, json_file>>

\* the with block of line 49 is left: the file is closed, its text is out
TwoClose(p) ==
    /\ procs # <<>> /\ procs[p].pc = "write"
    /\ procs[p].pos = Len(json_dump(procs[p].all))
    /\ temp_lock # p
    /\ procs' = [procs EXCEPT ![p].pc = "rename"]
    /\ UNCHANGED <<pipelineVars, temp_lock, json_file, temp_file>>

\* line 57: os.replace(temp_path, json_path); it raises when the temporary
\* file is gone or is held open by the other process
TwoRename(p) ==
    /\ procs # <<>> /\ procs[p].pc = "rename"
    /\ \/ /\ temp_file.exists /\ ~HoldsTemp(Other(p))
          /\ json_file' = temp_file
          /\ temp_file' = NoFile
          /\ procs' = [procs EXCEPT ![p].pc = "done", ![p].ret = "True"]
       \/ /\ procs' = [procs EXCEPT ![p].pc = "except"]
          /\ UNCHANGED <<json_file, temp_file>>
    /\ UNCHANGED <<pipelineVars, temp_lock>>

\* lines 59-67: os.remove(temp_path) if it exists, its failure passed over;
\* return False
TwoExcept(p) ==
    /\ procs # <<>> /\ procs[p].pc = "except"
    /\ temp_file' = IF HoldsTemp(Other(p)) THEN temp_file ELSE NoFile
    /\ procs' = [procs EXCEPT ![p].pc = "done", ![p].ret = "False"]
    /\ UNCHANGED <<pipelineVars, temp_lock, json_file>>

NextTwo ==
    \/ TwoStart
    \/ \E p \in Procs :
          \/ TwoRead(p) \/ TwoOpen(p) \/ TwoLock(p) \/ TwoUnlock(p)
          \/ TwoWrite(p) \/ TwoClose(p) \/ TwoRename(p) \/ TwoExcept(p)

SpecTwo == InitTwo /\ [][NextTwo]_vars

\* ================================================================ claims
CeilDiv(n, b) == IF n % b = 0 THEN n \div b ELSE (n \div b) + 1

OkCount(ts) == Cardinality({k \in 1..Len(ts) : ts[k] = "ok"})

\* the records result.json gained since the current call of _process_batch began
Appended ==
    SubSeq(ReadStore(json_file), Len(ReadStore(store_at_submit)) + 1,
           Len(ReadStore(json_file)))

\* C1: with N URLs and batch size B, run_pipeline submits exactly ceil(N/B)
\* batches, numbered 1..ceil(N/B), each holding B consecutive URLs in
\* discovery order except possibly the last; with N = 0 nothing is submitted
\* and result.json gains no record.
C1_BatchPartition ==
    LET N == Len(image_urls)
        B == batch_size
    IN  caller = "run_pipeline" =>
          /\ Len(submitted) <= CeilDiv(N, B)
          /\ \A k \in 1..Len(submitted) :
                /\ submitted[k].num = k
                /\ Len(submitted[k].urls) =
                       (IF k < CeilDiv(N, B) THEN B ELSE N - (k - 1) * B)
                /\ \A j \in 1..Len(submitted[k].urls) :
                       submitted[k].urls[j] = image_urls[(k - 1) * B + j]
          /\ (alive /\ pc = "done") =>
                /\ Len(submitted) = CeilDiv(N, B)
                /\ N = 0 => (submitted = <<>> /\ json_file = initial_store)

\* a run of 3 URLs in batches of 2 has ended: a full batch and a short one
C1_Witness ==
    /\ alive /\ pc = "done"
    /\ Len(image_urls) = 3 /\ batch_size = 2
    /\ Len(submitted) = 2 /\ Len(submitted[2].urls) = 1

\* C2 as stated: whatever the first call with batch number b did, a second call
\* with b downloads nothing and appends no record.
C2_AnyFirstOutcome ==
    (Len(submitted) = 2 /\ submitted[1].num = submitted[2].num) =>
        /\ pc \in {"pb_enter", "pb_return", "driver"}
        /\ json_file = store_at_submit

\* C2 amended: when the first call with batch number b downloaded at least
\* one image, whatever inference and persistence then did, a second call with
\* b downloads nothing and appends no record.
C2_AfterADownload ==
    repeat =>
        /\ pc \in {"pb_enter", "pb_return", "driver"}
        /\ tasks = <<>>
        /\ json_file = store_at_submit

\* the second call with a batch number whose first call downloaded something
\* has returned
C2_Witness ==
    /\ repeat /\ pc = "pb_return"
    /\ Len(submitted) = 2 /\ submitted[1].num = submitted[2].num

LogOk(e) == e.ret = "True" /\ e.errors = {}

\* C3: two successive calls update_json_file(A), update_json_file(B) in which
\* every step succeeds leave result.json equal to E ++ A ++ B, E being the
\* array it held before.
C3_MergeOrder ==
    (Len(merge_log) = 2 /\ LogOk(merge_log[1]) /\ LogOk(merge_log[2])) =>
        LET E == ReadStore(merge_log[1].before)
            A == merge_log[1].new
            B == merge_log[2].new
        IN  /\ merge_log[2].after = File(json_dump(E \o A \o B))
            /\ ReadStore(json_file) = E \o A \o B

\* two merges of different non-empty lists onto a non-empty report succeeded
C3_Witness ==
    /\ Len(merge_log) = 2 /\ LogOk(merge_log[1]) /\ LogOk(merge_log[2])
    /\ ReadStore(merge_log[1].before) # <<>>
    /\ Len(merge_log[1].new) = 2 /\ Len(merge_log[2].new) = 1

BeforeRename == {"mg_open", "mg_write", "mg_rename", "mg_except"}

\* C4: while a merge has not renamed the temporary file, and after it was
\* interrupted before the rename by an error or by the death of the process,
\* result.json holds exactly what it held when the merge began.
C4_InterruptedMergeKeepsReport ==
    (pc \in BeforeRename \/ (pc = "inf_ret" /\ merge_ret = "False")) =>
        /\ json_file = pre_merge
        /\ ReadStore(json_file) = ReadStore(pre_merge)

\* the process died in the middle of writing the temporary file, next to a
\* report that holds a record
C4_Witness ==
    /\ ~alive /\ pc = "mg_write"
    /\ temp_file.exists /\ Len(temp_file.text) >= 1
    /\ ~json_valid(temp_file.text)
    /\ ReadStore(pre_merge) # <<>>

\* C5: whenever a step of a merge fails (reading the report, writing the
\* temporary file, renaming it), update_json_file returns False, leaves no
\* temporary file and leaves result.json as it was.
C5_FailureReported ==
    (alive /\ pc = "inf_ret" /\ events \cap PersistenceErrors # {}) =>
        /\ merge_ret = "False"
        /\ ~temp_file.exists
        /\ json_file = pre_merge

\* C6: in every state, a dead process included, result.json is absent or one
\* complete array; during a merge it is the array from before the merge or
\* the array the merge wrote.
C6_ReportAlwaysComplete ==
    /\ json_file.exists => json_valid(json_file.text)
    /\ (pc \in BeforeRename \cup {"mg_read", "inf_ret"}) =>
          \/ json_file = pre_merge
          \/ /\ json_file = File(json_dump(all_results))
             /\ \E k \in 0..Len(all_results) :
                   SubSeq(all_results, k + 1, Len(all_results)) = new_results

\* a merge onto a report that held a record has renamed its file
C6_Witness ==
    /\ pc = "inf_ret" /\ merge_ret = "True"
    /\ json_file # pre_merge
    /\ ReadStore(pre_merge) # <<>>
    /\ Len(ReadStore(json_file)) > Len(ReadStore(pre_merge))

\* C7: in a batch where some fetches fail and k >= 1 succeed, with no error of
\* inference or persistence, inference is given the k downloaded images alone
\* and result.json gains exactly k records, theirs.
C7_PartialBatch ==
    (alive /\ pc = "pb_return" /\ OkCount(tasks) >= 1 /\ events \cap Errors = {}) =>
        /\ Len(successful_downloads) = OkCount(tasks)
        /\ \A j \in 1..Len(successful_downloads) :
              /\ successful_downloads[j].batch = batch_num
              /\ tasks[successful_downloads[j].idx + 1] = "ok"
        /\ Len(Appended) = OkCount(tasks)
        /\ \A j \in 1..Len(Appended) :
              Appended[j].image = ReplaceDir(successful_downloads[j])

\* a batch of two has returned: one fetch failed, one record was appended
C7_Witness ==
    /\ alive /\ pc = "pb_return" /\ events \cap Errors = {}
    /\ Len(tasks) = 2 /\ OkCount(tasks) = 1
    /\ Len(Appended) = 1

\* C8: when enhancement or detection raises for exactly one of the m
\* downloaded images of a batch, result.json gains exactly m - 1 records.
C8_OneImageSkipped ==
    (/\ alive /\ pc = "pb_return"
     /\ Cardinality(det_raises) = 1
     /\ events \cap Errors = {"detector_err"}) =>
        Len(Appended) = Len(successful_downloads) - 1

\* C9: a run of N URLs that starts on an empty report, in which every
\* download succeeds, the detector finds no box in any image and nothing
\* fails, ends with exactly N records, all of status false, and one file in
\* output_images per record.
C9_AllClean ==
    (/\ alive /\ pc = "done" /\ caller = "run_pipeline"
     /\ ReadStore(initial_store) = <<>>
     /\ run_events = {}) =>
        LET recs == ReadStore(json_file) IN
        /\ Len(recs) = Len(image_urls)
        /\ \A k \in 1..Len(recs) : recs[k].status = FALSE
        /\ output_dir = {recs[k].image : k \in 1..Len(recs)}
        /\ Cardinality(output_dir) = Len(image_urls)

\* such a run of 3 URLs in batches of 2 has ended
C9_Witness ==
    /\ alive /\ pc = "done" /\ run_events = {}
    /\ ReadStore(initial_store) = <<>>
    /\ Len(image_urls) = 3 /\ batch_size = 2
    /\ Len(ReadStore(json_file)) = 3

Failures == {"error", "download_err"}

\* C10: a failure inside a batch (download, inference, persistence) does not
\* end the run: after the batch the loop goes on with the next offset, and
\* the run is done only when every batch has been submitted.
C10_RunGoesOn ==
    (alive /\ caller = "run_pipeline" /\ run_events \cap Failures # {}) =>
        /\ pc = "loop" => i = Len(submitted) * batch_size
        /\ pc = "done" =>
              /\ i >= Len(image_urls)
              /\ {submitted[k].num : k \in 1..Len(submitted)}
                     = 1..CeilDiv(Len(image_urls), batch_size)

\* batch 2 is submitted after a batch in which something failed
C10_Witness ==
    /\ alive /\ pc = "pb_enter" /\ batch_num = 2
    /\ "error" \in run_events

\* ------------------------------------------------------------------- C11
\* what task k of the watched call was answered on a hop
Answers(k, hop) == {e.resp : e \in {x \in Range(fetch_log[k]) : x.hop = hop}}

Is3xx(r) == ~r.err /\ r.status \in 300..399

\* C11: while the tasks of the watched call run, a task has returned a path
\* only if its first response was a 3xx carrying a Location header and its
\* second response a 200; a task whose first response was not a 3xx, or a 3xx
\* without the header, or whose second response was not a 200, or that met a
\* transport error on either hop or on the body, has returned the failure
\* marker, and no task ends otherwise than by returning
C11_PathOnlyThroughRedirect ==
    (alive /\ caller = "fetch" /\ pc = "pb_gather") =>
        \A k \in 1..Len(tasks) :
            /\ tasks[k] \in {"get1", "get2", "body", "ok", "failed"}
            /\ tasks[k] = "ok" =>
                  /\ \E r \in Answers(k, "first") : Is3xx(r) /\ r.location
                  /\ \E r \in Answers(k, "second") : ~r.err /\ r.status = 200
            /\ (\E r \in Answers(k, "first") : ~Is3xx(r) \/ ~r.location)
                  => tasks[k] = "failed"
            /\ (\E r \in Answers(k, "second") : r.err \/ r.status # 200)
                  => tasks[k] = "failed"
            /\ (\E r \in Answers(k, "body") : r.err) => tasks[k] = "failed"

\* one task returned its path and another, redirected without a Location
\* header, returned the failure marker
C11_Witness ==
    /\ alive /\ caller = "fetch" /\ pc = "pb_gather"
    /\ \E k \in 1..Len(tasks) : tasks[k] = "ok"
    /\ \E k \in 1..Len(tasks) :
          /\ tasks[k] = "failed"
          /\ \E r \in Answers(k, "first") : Is3xx(r) /\ ~r.location

\* ------------------------------------------------------------------- C12
\* C12: when a call of _process_batch returns to run_pipeline, its batch
\* number is in processed_batches only if the inference of the batch did not
\* raise and its merge did not report failure.
C12_MarkedOnlyAfterSuccess ==
    (alive /\ caller = "run_pipeline" /\ pc = "pb_return"
     /\ batch_num \in processed_batches) =>
        events \cap {"detector_err", "write_err", "rename_err"} = {}

Attempts(k) == Cardinality({n \in 1..Len(fetch_log[k]) : fetch_log[k][n].hop = "first"})

\* C14: in the watched call there is one download task per URL of the batch
\* and no task issues a second first GET; the call leaves the gather (for
\* inference or to return) only when every task has returned, with success
\* or failure, each after exactly one fetch attempt, whatever the other
\* tasks did and in whatever order the tasks were scheduled.
C14_GatherWaitsForAll ==
    /\ []((alive /\ caller = "fetch" /\ pc = "pb_gather") =>
             /\ Len(tasks) = Len(batch)
             /\ \A k \in 1..Len(tasks) : Attempts(k) <= 1)
    /\ [][(caller = "fetch" /\ pc = "pb_gather" /\ pc' # "pb_gather") =>
             \A k \in 1..Len(batch) :
                 /\ tasks[k] \in {"ok", "failed"}
                 /\ Attempts(k) = 1]_vars

\* the first task failed, the second was still fetched and succeeded, and
\* inference is about to start
C14_Witness ==
    /\ alive /\ caller = "fetch" /\ pc = "inf_start"
    /\ Len(tasks) = 2
    /\ tasks[1] = "failed" /\ tasks[2] = "ok"

\* ------------------------------------------------------------------- C15
Increasing(paths) ==
    \A a, b \in 1..Len(paths) : a < b => paths[a].idx < paths[b].idx

\* C15: in the watched call, once the gather has returned, the list handed
\* to inference holds the paths of exactly the tasks that succeeded, in the
\* order of their URLs in the batch, whatever the order in which the tasks
\* returned; the records of the batch are appended in that order, and a call
\* without errors leaves them so in result.json.
C15_UrlOrderKept ==
    (alive /\ caller = "fetch"
     /\ pc \notin {"driver", "pb_enter", "pb_session", "pb_gather"}
     /\ tasks # <<>>) =>
        /\ Increasing(successful_downloads)
        /\ {p.idx + 1 : p \in Range(successful_downloads)}
               = {k \in 1..Len(tasks) : tasks[k] = "ok"}
        /\ \A p \in Range(successful_downloads) : p = InPath(batch_num, p.idx)
        /\ Increasing([j \in 1..Len(watermark_status) |-> watermark_status[j].image])
        /\ (pc = "pb_return" /\ events \cap Errors = {}) =>
               [j \in 1..Len(Appended) |-> Appended[j].image]
                   = [j \in 1..Len(successful_downloads) |->
                          ReplaceDir(successful_downloads[j])]

\* the second task returned before the first, both succeeded and the call
\* merged their two records
C15_Witness ==
    /\ alive /\ caller = "fetch" /\ pc = "pb_return"
    /\ done_order = <<2, 1>>
    /\ Len(successful_downloads) = 2
    /\ Len(Appended) = 2

\* ------------------------------------------------------------------- C16
\* C16: while a batch of a run is being worked, every file of the input
\* directory was written by that batch: the files of the batch before were
\* removed when its call returned, whatever the call's outcome.
C16_NoFileOfAnotherBatch ==
    (alive /\ caller = "run_pipeline") =>
        /\ \A f \in input_dir : f.batch = batch_num
        /\ pc = "loop" => input_dir = {}

C18_ReportIsOneMerge ==
    (caller = "two" /\ procs # <<>>) =>
        \/ json_file = initial_store
        \/ \E p \in Procs :
              /\ procs[p].pc # "read"
              /\ json_file = File(json_dump(procs[p].all))

\* ------------------------------------------------------------------- C19
\* the images of the watched call whose detection result was obtained and
\* whose drawing or saving then failed
RenderFailed == {e \in Range(infer_log) : e.got /\ (~e.drawn \/ ~e.stored)}

\* what the image's record must be: status true exactly with at least one box
RecordOf(e) == Record(ReplaceDir(e.path), e.boxes >= 1)

\* C19: in the watched call, an image whose detection result was obtained
\* and whose drawing or saving failed has its record, with status true
\* exactly when the detector returned at least one box, in watermark_status
\* and so in the list handed to update_json_file; when the call returns
\* without a persistence error the record is among those appended to
\* result.json.
C19_RecordKeptWhenRenderFails ==
    (alive /\ caller = "fetch") =>
        \A e \in RenderFailed :
            /\ pc = "inf_loop" => RecordOf(e) \in Range(watermark_status)
            /\ pc \in {"mg_read", "mg_open", "mg_write", "mg_rename", "mg_except",
                       "inf_ret"} =>
                  RecordOf(e) \in Range(new_results)
            /\ (pc = "pb_return" /\ events \cap PersistenceErrors = {}) =>
                  RecordOf(e) \in Range(Appended)

\* drawing failed on an image with a box, and its record with status true
\* was appended to result.json
C19_Witness ==
    /\ alive /\ caller = "fetch" /\ pc = "pb_return"
    /\ events \cap PersistenceErrors = {}
    /\ \E e \in RenderFailed :
          /\ e.boxes >= 1 /\ ~e.drawn
          /\ RecordOf(e) \in Range(Appended)

\* ------------------------------------------------------------------- C20
\* the states of the controller
Phase(at) ==
    IF at = "idle" THEN "Idle"
    ELSE IF at = "fetching" THEN "Fetching-URLs"
    ELSE IF at = "done" THEN "Done"
    ELSE "Iterating-Batches"

PhaseSteps ==
    {<<"Idle", "Fetching-URLs">>, <<"Fetching-URLs", "Done">>,
     <<"Fetching-URLs", "Iterating-Batches">>, <<"Iterating-Batches", "Done">>}

\* C20: a run that is not killed and whose download tasks all settle reaches
\* Done; on its way the controller goes Idle, Fetching-URLs, Done or Idle,
\* Fetching-URLs, Iterating-Batches, Done; and at Done every batch of the
\* discovered URLs has been submitted exactly once.
C20_RunReachesDone ==
    /\ <>(pc = "done")
    /\ [][Phase(pc') # Phase(pc) => <<Phase(pc), Phase(pc')>> \in PhaseSteps]_vars
    /\ [](pc = "done" =>
             /\ Len(submitted) = CeilDiv(Len(image_urls), batch_size)
             /\ \A b \in 1..CeilDiv(Len(image_urls), batch_size) :
                   Cardinality({k \in 1..Len(submitted) : submitted[k].num = b}) = 1)

\* the run is done after two batches, one of which had a failed download
C20_Witness ==
    /\ alive /\ caller = "run_pipeline" /\ pc = "done"
    /\ Len(submitted) = 2
    /\ "download_err" \in run_events
====
